---------------------------- MODULE Spec2Model ----------------------------
(***************************************************************************)
(* ArthaAI: the query service (src/services/geminiService.ts) and the      *)
(* presentation layer's polling controller (src/App.tsx).                  *)
(*                                                                         *)
(* Six specifications share this module:                                   *)
(*   SpecService  one call of analyzeIndianStock or fetchRealTimePrice,    *)
(*                stepped through fetchWithRetry attempt by attempt;       *)
(*   Spec         the App component: handleSearch, the polling useEffect,  *)
(*                runPolling, the timers and the buttons;                  *)
(*   SpecLive     the App component under a fair event loop;               *)
(*   SpecHistory  the App component over long runs of searches and         *)
(*                history clears;                                          *)
(*   SpecMarket   isIndianMarketOpen at every minute of the week;          *)
(*   SpecExtract  one call of extractJson on a text.                       *)
(***************************************************************************)
EXTENDS Integers, Sequences, FiniteSets, TLC

VARIABLES
    \* ---- query service (one exported call in progress) ----
    pc,            \* "idle" | "attempt" | "wait" | "done"
    callee,        \* "none" | "analyzeIndianStock" | "fetchRealTimePrice"
    ticker,        \* the normalised ticker sent upstream
    maxRetries,    \* fetchWithRetry parameter
    initialDelay,  \* fetchWithRetry parameter
    attempt,       \* fetchWithRetry loop index (0-based)
    lastError,     \* fetchWithRetry local
    calls,         \* number of times fn() was invoked
    waits,         \* the delays slept so far, in order
    log,           \* per attempt: what the upstream call produced
    retryResult,   \* how fetchWithRetry settled
    final,         \* how the exported function settled
    symbolArg,     \* the symbol argument of the exported call
    \* ---- extractJson called on its own ----
    textArg,       \* the argument of the call
    extracted,     \* how the call settled
    \* ---- App component (src/App.tsx) ----
    mounted,            \* the component is mounted
    isAnalyzing,        \* useState
    analysis,           \* useState: NoAnalysis (null) or the displayed analysis
    history,            \* useState: most recent first
    error,              \* useState: a message is shown
    livePrice,          \* useState: Null or a number
    livePriceChange,    \* useState: Null or a number
    isRefreshingPrice,  \* useState
    pollingTimeoutRef,  \* useRef: 0 (null) or a timer id
    stored,             \* localStorage item 'artha_history'
    timers,             \* pending setTimeout(runPolling, delay) callbacks
    polls,              \* runPolling calls awaiting fetchRealTimePrice
    search,             \* the handleSearch call awaiting analyzeIndianStock
    searches,           \* number of searches started (also the clock of Date.now())
    now,                \* wall clock in the exchange's time zone
    lastPoll            \* history: the runPolling call that settled last

svcVars == <<pc, callee, ticker, maxRetries, initialDelay, attempt, lastError,
             calls, waits, log, retryResult, final, symbolArg>>

fnVars == <<textArg, extracted>>

appVars == <<mounted, isAnalyzing, analysis, history, error, livePrice,
             livePriceChange, isRefreshingPrice, pollingTimeoutRef, stored,
             timers, polls, search, searches, now, lastPoll>>

vars == <<svcVars, appVars, fnVars>>

-----------------------------------------------------------------------------
(* Text of a model response, as a sequence of lexical tokens.              *)
(*   "{" "}"   braces                                                      *)
(*   "m"       the requested members, with numeric values                  *)
(*   "z"       the members "price": 0, "change": 0                         *)
(*   "a"       the start of a member with a string value, up to and        *)
(*             including the opening quote of the value                    *)
(*   "b"       the closing quote of that value                             *)
(*   "x"       prose (anything that is not JSON)                           *)
(*   " "       whitespace                                                  *)
(*   "F"       a code fence (three backquotes)                             *)
(*   "J"       a code fence carrying the json tag                          *)

Fence == "F"
FenceJson == "J"
Tokens == {"{", "}", "m", "z", "a", "b", "x", " ", Fence, FenceJson}

\* What can stand between "a" and "b": characters that need no escape.
StringTokens == {"{", "}", "x", " ", Fence, FenceJson}

\* The symbol the "m" members carry (their price is 100, their change 2).
PayloadSymbol == <<"TCS">>

\* A JavaScript value as far as the service looks at it.
Undefined == [type |-> "undefined", num |-> 0, str |-> <<>>]
Num(n) == [type |-> "number", num |-> n, str |-> <<>>]
Str(s) == [type |-> "string", num |-> 0, str |-> s]

\* String.prototype.replace(/tok/g, '')
RECURSIVE RemoveAll(_, _)
RemoveAll(s, tok) ==
    IF s = <<>> THEN <<>>
    ELSE IF Head(s) = tok THEN RemoveAll(Tail(s), tok)
    ELSE <<Head(s)>> \o RemoveAll(Tail(s), tok)

\* String.prototype.trim()
RECURSIVE TrimLeft(_)
TrimLeft(s) ==
    IF s # <<>> /\ Head(s) = " " THEN TrimLeft(Tail(s)) ELSE s

RECURSIVE TrimRight(_)
TrimRight(s) ==
    IF s # <<>> /\ s[Len(s)] = " " THEN TrimRight(SubSeq(s, 1, Len(s) - 1)) ELSE s

Trim(s) == TrimRight(TrimLeft(s))

\* indexOf / lastIndexOf, 1-based; 0 stands for JavaScript's -1.
IndexOf(s, tok) ==
    IF \E i \in 1..Len(s) : s[i] = tok
    THEN CHOOSE i \in 1..Len(s) : s[i] = tok /\ \A j \in 1..(i - 1) : s[j] # tok
    ELSE 0

LastIndexOf(s, tok) ==
    IF \E i \in 1..Len(s) : s[i] = tok
    THEN CHOOSE i \in 1..Len(s) : s[i] = tok /\ \A j \in (i + 1)..Len(s) : s[j] # tok
    ELSE 0

\* Nesting depth after each prefix of s: Depth(s, i) is the number of "{"
\* minus the number of "}" among s[1..i].
RECURSIVE Depth(_, _)
Depth(s, i) ==
    IF i = 0 THEN 0
    ELSE Depth(s, i - 1) + (IF s[i] = "{" THEN 1 ELSE IF s[i] = "}" THEN -1 ELSE 0)

\* A token as part of a string value: a character of the string, not syntax.
InString(c) ==
    CASE c = "{" -> "'{" [] c = "}" -> "'}" [] c = "x" -> "'x" [] c = " " -> "' "
      [] c = Fence -> "'F" [] c = FenceJson -> "'J" [] OTHER -> "!"

\* JSON.parse's scanner: whitespace between tokens is dropped, the tokens
\* between "a" and "b" are the characters of a string value, and "!" marks
\* what no JSON text contains (a quote inside a string, a string never
\* closed, a closing quote with no string open).
RECURSIVE Lex(_, _)
Lex(s, inString) ==
    IF s = <<>> THEN (IF inString THEN <<"!">> ELSE <<>>)
    ELSE IF inString
         THEN IF Head(s) = "b" THEN <<"b">> \o Lex(Tail(s), FALSE)
              ELSE <<InString(Head(s))>> \o Lex(Tail(s), TRUE)
         ELSE IF Head(s) = " " THEN Lex(Tail(s), FALSE)
              ELSE IF Head(s) = "a" THEN <<"a">> \o Lex(Tail(s), TRUE)
              ELSE IF Head(s) = "b" THEN <<"!">> \o Lex(Tail(s), FALSE)
              ELSE <<Head(s)>> \o Lex(Tail(s), FALSE)

JsonItems == {"{", "}", "m", "z", "a", "b"} \cup {InString(c) : c \in StringTokens}

\* JSON.parse accepts exactly one object here: the first "{" is closed by
\* the last token, and only members and nested objects occur inside.
JsonValid(s) ==
    LET t == Lex(s, FALSE) IN
    /\ Len(t) >= 2
    /\ t[1] = "{"
    /\ \A i \in 1..Len(t) : t[i] \in JsonItems
    /\ \A i \in 1..(Len(t) - 1) : Depth(t, i) >= 1
    /\ Depth(t, Len(t)) = 0

ParseFail == [ok |-> FALSE, toks |-> <<>>]

\* JSON.parse: the parsed object is the scanned tokens, string values
\* character by character.
JsonParse(s) ==
    IF JsonValid(s) THEN [ok |-> TRUE, toks |-> Lex(s, FALSE)] ELSE ParseFail

\* The top-level members of a parsed object, in order.
TopMembers(t) ==
    SelectSeq([i \in 1..Len(t) |->
                  IF t[i] \in {"m", "z"} /\ Depth(t, i) = 1 THEN t[i] ELSE "-"],
              LAMBDA e : e # "-")

\* The keys a member token defines, and the value it gives each.
Defines(tok, name) ==
    IF tok = "z" THEN name \in {"price", "change"}
    ELSE name \in {"symbol", "price", "currentPrice", "change"}

ValueOf(tok, name) ==
    IF tok = "z" THEN Num(0)
    ELSE CASE name = "symbol" -> Str(PayloadSymbol)
           [] name \in {"price", "currentPrice"} -> Num(100)
           [] OTHER -> Num(2)

\* data.<name>: a later duplicate key wins, a missing key is undefined.
Field(data, name) ==
    LET ms == SelectSeq(TopMembers(data), LAMBDA e : Defines(e, name)) IN
    IF ms = <<>> THEN Undefined ELSE ValueOf(ms[Len(ms)], name)

-----------------------------------------------------------------------------
(* src/services/geminiService.ts                                           *)

\* A ticker symbol is a sequence of parts; "." is the dot character.
HasDot(symbol) == \E i \in 1..Len(symbol) : symbol[i] = "."

\* Mutant: the suffix is appended to every symbol.
NormaliseAlways(symbol) == symbol \o <<".", "NS">>

\* symbol.includes('.') ? symbol : `${symbol}.NS`
NormaliseTicker(symbol) ==
    IF HasDot(symbol) THEN symbol ELSE symbol \o <<".", "NS">>

\* The strings of this model carry no digit, so a string cleans to "" or
\* to dots only, parseFloat gives NaN and the result is 0.
cleanNumericString(val) ==
    IF val.type = "number" THEN val.num
    ELSE IF val.type # "string" THEN 0
    ELSE 0

EmptyMsg == "Empty response from model"
ExtractMsg == "Could not extract valid JSON from the market data source."
UpstreamMsg == "upstream"
TypeErrorMsg == "Cannot read properties of undefined (reading 'includes')"

Threw(msg) == [ok |-> FALSE, toks |-> <<>>, msg |-> msg]
Parsed(toks) == [ok |-> TRUE, toks |-> toks, msg |-> ""]

\* cleaned.substring(firstBrace, lastBrace + 1), with 1-based indices
Snippet(cleaned, firstBrace, lastBrace) == SubSeq(cleaned, firstBrace, lastBrace)

StripFences(text) == Trim(RemoveAll(RemoveAll(text, FenceJson), Fence))

\* Mutant: a text that cannot be parsed yields the empty object.
extractJsonOrEmpty(text) ==
    IF text = <<>> THEN Threw(EmptyMsg)
    ELSE IF JsonParse(StripFences(text)).ok
         THEN Parsed(JsonParse(StripFences(text)).toks)
         ELSE Parsed(<<"{", "}">>)

extractJson(text) ==
    IF text = <<>> THEN Threw(EmptyMsg)
    ELSE LET cleaned == StripFences(text)
             direct == JsonParse(cleaned)
             firstBrace == IndexOf(cleaned, "{")
             lastBrace == LastIndexOf(cleaned, "}")
         IN  IF direct.ok THEN Parsed(direct.toks)
             ELSE IF /\ firstBrace # 0 /\ lastBrace # 0 /\ lastBrace > firstBrace
                     /\ JsonParse(Snippet(cleaned, firstBrace, lastBrace)).ok
                  THEN Parsed(JsonParse(Snippet(cleaned, firstBrace, lastBrace)).toks)
                  ELSE Threw(ExtractMsg)

\* What one upstream call (ai.models.generateContent) can produce.
NoStatus == [hasStatus |-> FALSE, status |-> 0]
Status(n) == [hasStatus |-> TRUE, status |-> n]
Statuses == {400, 429, 500, 503}

Reject(st) == [kind |-> "reject", st |-> st, textDefined |-> FALSE, text |-> <<>>]
Resolve(defined, text) ==
    [kind |-> "resolve", st |-> NoStatus, textDefined |-> defined, text |-> text]

ServiceTexts ==
    { <<>>, <<"{", "}">>, <<"{", "m", "}">>, <<"{", "z", "}">>,
      <<FenceJson, "{", "m", "}", Fence>>, <<"x", "{", "m", "}", "x">>,
      <<"x">>, <<"}", "{">> }

Upstream ==
    {Reject(NoStatus)} \cup {Reject(Status(n)) : n \in Statuses}
    \cup {Resolve(FALSE, <<>>)} \cup {Resolve(TRUE, t) : t \in ServiceTexts}

\* An error value: its status if it has one, its message, and the attempt
\* that raised it (two errors of different attempts are different objects).
Error(st, msg) == [st |-> st, msg |-> msg, at |-> 0]
NoError == [st |-> NoStatus, msg |-> "", at |-> -1]

NoValue == [symbol |-> Undefined, price |-> 0, change |-> 0]
Returns(v) == [kind |-> "return", value |-> v, error |-> NoError]
Throws(e) == [kind |-> "throw", value |-> NoValue, error |-> e]
Pending == [kind |-> "pending", value |-> NoValue, error |-> NoError]

\* response.text || fallback
TextOr(u, fallback) == IF u.textDefined /\ u.text # <<>> THEN u.text ELSE fallback

DefaultPriceText == <<"{", "z", "}">>
DefaultAnalysisText == <<"{", "}">>

\* fetchRealTimePrice's executeFetch, given what the upstream call produced
executeFetch(u) ==
    IF u.kind = "reject" THEN Throws(Error(u.st, UpstreamMsg))
    ELSE LET data == extractJson(TextOr(u, DefaultPriceText)) IN
         IF ~data.ok THEN Throws(Error(NoStatus, data.msg))
         ELSE Returns([symbol |-> Undefined,
                       price |-> cleanNumericString(Field(data.toks, "price")),
                       change |-> cleanNumericString(Field(data.toks, "change"))])

\* analyzeIndianStock's executeAnalysis: {...rawData, currentPrice: ...}
executeAnalysis(u) ==
    IF u.kind = "reject" THEN Throws(Error(u.st, UpstreamMsg))
    ELSE LET rawData == extractJson(TextOr(u, DefaultAnalysisText)) IN
         IF ~rawData.ok THEN Throws(Error(NoStatus, rawData.msg))
         ELSE Returns([symbol |-> Field(rawData.toks, "symbol"),
                       price |-> cleanNumericString(Field(rawData.toks, "currentPrice")),
                       change |-> 0])

\* fn(), for the function the retry wrapper was given
Fn(who, u) == IF who = "analyzeIndianStock" THEN executeAnalysis(u) ELSE executeFetch(u)

-----------------------------------------------------------------------------
(* fetchWithRetry, one step per await                                      *)

DefaultMaxRetries == 3
DefaultInitialDelay == 1000
AnalysisMaxRetries == 2

RECURSIVE Pow2(_)
Pow2(n) == IF n = 0 THEN 1 ELSE 2 * Pow2(n - 1)

\* error?.status === 429 || error?.status >= 500
isTransient(err) ==
    err.st.hasStatus /\ (err.st.status = 429 \/ err.st.status >= 500)

\* Mutant: the first-attempt test is lost, every failure is retried.
ThrowsNever(err, att) == FALSE

\* Mutant: the attempt test is lost, a failure that is not transient is
\* raised on whatever attempt it occurs.
ThrowsWheneverNotTransient(err, att) == ~isTransient(err)

\* if (!isTransient && attempt === 0) throw error
ThrowsAtOnce(err, att) == ~isTransient(err) /\ att = 0

\* Mutant: a constant delay instead of an exponential one.
BackoffFlat(delay0, att) == delay0

\* initialDelay * Math.pow(2, attempt)
Backoff(delay0, att) == delay0 * Pow2(att)

\* Mutant: only the first failure is remembered.
RecordFirstError(previous, err) == IF previous.at = -1 THEN err ELSE previous

\* lastError = error
RecordError(previous, err) == err

\* Mutant: the catch is missing, the failure propagates.
PriceRethrow(res) == res

\* try { return await fetchWithRetry(executeFetch) } catch (e) { return {price: 0, change: 0} }
PriceCatch(res) ==
    IF res.kind = "throw" THEN Returns([symbol |-> Undefined, price |-> 0, change |-> 0])
    ELSE res

\* return await fetchWithRetry(executeAnalysis, 2)
AnalysisPass(res) == res

Export(who, res) ==
    IF who = "fetchRealTimePrice" THEN PriceCatch(res) ELSE AnalysisPass(res)

\* Mutant: the explicit 2 is dropped, the default applies.
AnalysisRetriesDefaulted == DefaultMaxRetries

\* maxRetries of each call site
PriceRetries == DefaultMaxRetries

AnalysisRetries == AnalysisMaxRetries

ServiceSymbols == { <<"TCS">>, <<"TCS", ".", "BO">>, <<"TCS", ".", "NS">> }

SvcInit ==
    /\ pc = "idle"
    /\ callee = "none"
    /\ ticker = <<>>
    /\ maxRetries = 0
    /\ initialDelay = 0
    /\ attempt = 0
    /\ lastError = NoError
    /\ calls = 0
    /\ waits = <<>>
    /\ log = <<>>
    /\ retryResult = Pending
    /\ final = Pending
    /\ symbolArg = Undefined

Enter(who, symbol, retries, delay0) ==
    /\ pc = "idle"
    /\ pc' = "attempt"
    /\ callee' = who
    /\ symbolArg' = Str(symbol)
    /\ ticker' = NormaliseTicker(symbol)
    /\ maxRetries' = retries
    /\ initialDelay' = delay0
    /\ attempt' = 0
    /\ UNCHANGED <<lastError, calls, waits, log, retryResult, final>>
    /\ UNCHANGED <<appVars, fnVars>>

\* analyzeIndianStock(symbol) up to its first await
CallAnalyze ==
    \E symbol \in ServiceSymbols :
        Enter("analyzeIndianStock", symbol, AnalysisRetries, DefaultInitialDelay)

\* The arguments App passes to fetchRealTimePrice: analysis.symbol, which
\* is undefined when the payload had no symbol.
PriceArgs == {Str(symbol) : symbol \in ServiceSymbols} \cup {Undefined}

\* symbol.includes('.') on a non-string: the TypeError is raised before the
\* try block, so the returned promise rejects.
PriceTypeError ==
    /\ pc = "idle"
    /\ pc' = "done"
    /\ callee' = "fetchRealTimePrice"
    /\ final' = Throws(Error(NoStatus, TypeErrorMsg))
    /\ symbolArg' = Undefined
    /\ UNCHANGED <<ticker, maxRetries, initialDelay, attempt, lastError, calls,
                   waits, log, retryResult>>
    /\ UNCHANGED <<appVars, fnVars>>

\* fetchRealTimePrice(symbol) up to its first await
CallPrice ==
    \E symbol \in PriceArgs :
        IF symbol.type = "string"
        THEN Enter("fetchRealTimePrice", symbol.str, PriceRetries, DefaultInitialDelay)
        ELSE PriceTypeError

\* fetchWithRetry settles, and with it the exported function
Settle(res) ==
    /\ pc' = "done"
    /\ retryResult' = res
    /\ final' = Export(callee, res)

\* await fn() settles: the try/catch of one loop iteration
Attempt ==
    /\ pc = "attempt"
    /\ attempt < maxRetries
    /\ \E u \in Upstream :
         LET r == Fn(callee, u)
             e == [r.error EXCEPT !.at = attempt]
         IN  /\ calls' = calls + 1
             /\ log' = Append(log, u)
             /\ IF r.kind = "return"
                THEN /\ Settle(r)
                     /\ UNCHANGED lastError
                ELSE /\ lastError' = RecordError(lastError, e)
                     /\ IF ThrowsAtOnce(e, attempt)
                        THEN Settle(Throws(e))
                        ELSE /\ pc' = "wait"
                             /\ UNCHANGED <<retryResult, final>>
    /\ UNCHANGED <<callee, ticker, maxRetries, initialDelay, attempt, waits,
                   symbolArg>>
    /\ UNCHANGED <<appVars, fnVars>>

\* the backoff timer resolves; attempt++; the loop test; throw lastError
Wake ==
    /\ pc = "wait"
    /\ waits' = Append(waits, Backoff(initialDelay, attempt))
    /\ attempt' = attempt + 1
    /\ IF attempt + 1 < maxRetries
       THEN /\ pc' = "attempt"
            /\ UNCHANGED <<retryResult, final>>
       ELSE Settle(Throws(lastError))
    /\ UNCHANGED <<callee, ticker, maxRetries, initialDelay, lastError, calls, log,
                   symbolArg>>
    /\ UNCHANGED <<appVars, fnVars>>

SvcNext == CallAnalyze \/ CallPrice \/ Attempt \/ Wake

-----------------------------------------------------------------------------
(* src/App.tsx: the App component                                          *)

OpenInterval == 30000
ClosedInterval == 900000
HistoryLimit == 10

\* Bound: how many searches a behaviour starts.
MaxSearches == 2

Null == [type |-> "null", num |-> 0, str |-> <<>>]
NoAnalysis == [id |-> 0, symbol |-> Undefined, price |-> 0]
NoSearch == [active |-> FALSE, symbol |-> <<>>, history |-> <<>>]
NoItem == [present |-> FALSE, list |-> <<>>]
NoPoll == [owner |-> 0, accepted |-> FALSE]
\* Mutant: setItem stores an empty list.
ItemEmptied(list) == [present |-> TRUE, list |-> <<>>]

\* localStorage.setItem('artha_history', JSON.stringify(list))
Item(list) == [present |-> TRUE, list |-> list]

\* Wall-clock instants (weekday 0 = Sunday, hours, minutes) the clock visits.
ClockSamples ==
    { [day |-> 1, hours |-> 9, minutes |-> 15],
      [day |-> 6, hours |-> 10, minutes |-> 0] }

\* Mutant: the closing minute itself counts as closed.
isIndianMarketOpenBeforeClose(t) ==
    /\ t.day \in 1..5
    /\ t.hours * 60 + t.minutes >= 9 * 60 + 15
    /\ t.hours * 60 + t.minutes < 15 * 60 + 30

\* t holds istDate.getDay(), getHours() and getMinutes().
isIndianMarketOpen(t) ==
    IF t.day = 0 \/ t.day = 6 THEN FALSE
    ELSE LET timeInMinutes == t.hours * 60 + t.minutes
             openTime == 9 * 60 + 15
             closeTime == 15 * 60 + 30
         IN  timeInMinutes >= openTime /\ timeInMinutes <= closeTime

\* Mutant: the two delays are swapped.
IntervalSwapped(t) == IF isIndianMarketOpen(t) THEN ClosedInterval ELSE OpenInterval

\* isIndianMarketOpen() ? 30000 : 900000
Interval(t) == IF isIndianMarketOpen(t) THEN OpenInterval ELSE ClosedInterval

\* What the user can submit, and what analyzeIndianStock can settle with:
\* the upstream chooses the symbol and the price of the result.
SearchInputs == { <<>>, <<"TCS">>, <<"INFY">> }
\* The analyses executeAnalysis returns over the modelled upstream responses:
\* TCS at 100 from the full payload, and no symbol at price 0 from '{}'.
ServiceAnalysisValues ==
    { [symbol |-> executeAnalysis(u).value.symbol,
       price |-> executeAnalysis(u).value.price] :
          u \in {w \in Upstream : executeAnalysis(w).kind = "return"} }

AnalysisValues ==
    ServiceAnalysisValues \cup { [symbol |-> Str(<<"INFY">>), price |-> 250] }

\* What fetchRealTimePrice can settle with for a string symbol.
PriceValues ==
    { [price |-> 0, change |-> 0], [price |-> -1, change |-> 3],
      [price |-> 101, change |-> 2] }

\* fetchRealTimePrice(analysis.symbol): symbol.includes throws on undefined.
PollOutcomes(symbol) ==
    IF symbol.type # "string"
    THEN { [threw |-> TRUE, price |-> 0, change |-> 0] }
    ELSE { [threw |-> FALSE, price |-> v.price, change |-> v.change] : v \in PriceValues }

\* setTimeout's return value. A timer is identified by the analysis whose
\* runPolling closure it will call: a closure has at most one pending timer
\* (OneTimerPerClosure), and pollingTimeoutRef always holds the timer created
\* last, so the timer of that closure, if one is pending, is the one the ref
\* names.
TimerId(owner) == owner

\* Mutant: the callback is never registered.
SetTimeoutLost(ts, t) == ts

\* setTimeout(runPolling, delay): one more pending callback
SetTimeout(ts, t) == ts \cup {t}

\* if (pollingTimeoutRef.current) clearTimeout(pollingTimeoutRef.current)
ClearTimeout(ts, ref) == { t \in ts : t.id # ref }

\* Mutant: the filter keeps every entry.
FilterNone(h, symbol) == h

\* Mutant: the slice keeps the last n entries.
SliceLast(h, n) == SubSeq(h, IF Len(h) < n THEN 1 ELSE Len(h) - n + 1, Len(h))

\* [newItem, ...history.filter(h => h.symbol !== result.symbol)].slice(0, 10)
Filter(h, symbol) == SelectSeq(h, LAMBDA e : e.symbol # symbol)
Slice(h, n) == SubSeq(h, 1, IF Len(h) < n THEN Len(h) ELSE n)
UpdatedHistory(h, result, stamp) ==
    Slice(<<[symbol |-> result.symbol, timestamp |-> stamp]>> \o Filter(h, result.symbol),
          HistoryLimit)

\* Mutant: the price test is lost, every settled reading is displayed.
AcceptsAnyUpdate(update) == ~update.threw

\* if (update && update.price > 0)
AcceptsUpdate(update) == ~update.threw /\ update.price > 0

AppInit ==
    /\ mounted = TRUE
    /\ isAnalyzing = FALSE
    /\ analysis = NoAnalysis
    /\ stored \in {NoItem, Item(<<[symbol |-> Str(<<"TCS">>), timestamp |-> 0]>>)}
    /\ history = stored.list
    /\ error = FALSE
    /\ livePrice = Null
    /\ livePriceChange = Null
    /\ isRefreshingPrice = FALSE
    /\ pollingTimeoutRef = 0
    /\ timers = {}
    /\ polls = {}
    /\ search = NoSearch
    /\ searches = 0
    /\ now \in ClockSamples
    /\ lastPoll = NoPoll

\* handleSearch(symbol), up to `await analyzeIndianStock(symbol)`. The search
\* box and the history grid are rendered only while !analysis && !isAnalyzing.
StartSearch(inputs, limit) ==
    /\ mounted /\ analysis = NoAnalysis /\ ~isAnalyzing
    /\ searches < limit
    /\ \E symbol \in inputs :
         IF symbol = <<>>
         THEN UNCHANGED appVars
         ELSE /\ isAnalyzing' = TRUE
              /\ error' = FALSE
              /\ analysis' = NoAnalysis
              /\ livePrice' = Null
              /\ search' = [active |-> TRUE, symbol |-> symbol, history |-> history]
              /\ searches' = searches + 1
              /\ UNCHANGED <<mounted, history, livePriceChange, isRefreshingPrice,
                             pollingTimeoutRef, stored, timers, polls, now, lastPoll>>
    /\ UNCHANGED <<svcVars, fnVars>>

HandleSearch == StartSearch(SearchInputs, MaxSearches)

\* analyzeIndianStock resolved with v: the rest of the try block, finally, and
\* the polling effect that the new analysis triggers.
SearchResolvesWith(v) ==
    /\ search.active
    /\   LET result == [id |-> searches, symbol |-> v.symbol, price |-> v.price]
             updatedHistory == UpdatedHistory(search.history, result, searches)
             id == TimerId(result.id)
         IN  /\ stored' = Item(updatedHistory)
             /\ IF mounted
                THEN /\ analysis' = result
                     /\ livePrice' = Num(result.price)
                     /\ history' = updatedHistory
                     /\ isAnalyzing' = FALSE
                     /\ timers' = SetTimeout(timers,
                            [id |-> id, owner |-> result.id,
                             symbol |-> result.symbol, delay |-> Interval(now)])
                     /\ pollingTimeoutRef' = id
                ELSE UNCHANGED <<analysis, livePrice, history, isAnalyzing, timers,
                                 pollingTimeoutRef>>
    /\ search' = NoSearch
    /\ UNCHANGED <<mounted, error, livePriceChange, isRefreshingPrice, polls,
                   searches, now, lastPoll>>
    /\ UNCHANGED <<svcVars, fnVars>>

SearchResolves == \E v \in AnalysisValues : SearchResolvesWith(v)

\* Mutant: the catch block shows no message.
AnalysisFailedSilently == FALSE

\* setError("Analysis failed. ..."): a message is shown
AnalysisFailed == TRUE

\* Mutant: the failed search is entered in the history all the same.
SearchRejectsAndRecords ==
    /\ search.active
    /\ search' = NoSearch
    /\ IF mounted
       THEN /\ error' = AnalysisFailed /\ isAnalyzing' = FALSE
            /\ history' = UpdatedHistory(search.history,
                               [symbol |-> Str(search.symbol)], searches)
       ELSE UNCHANGED <<error, isAnalyzing, history>>
    /\ UNCHANGED <<mounted, analysis, livePrice, livePriceChange,
                   isRefreshingPrice, pollingTimeoutRef, stored, timers, polls,
                   searches, now, lastPoll>>
    /\ UNCHANGED <<svcVars, fnVars>>

\* analyzeIndianStock rejected: the catch block and finally.
SearchRejects ==
    /\ search.active
    /\ search' = NoSearch
    /\ IF mounted
       THEN error' = AnalysisFailed /\ isAnalyzing' = FALSE
       ELSE UNCHANGED <<error, isAnalyzing>>
    /\ UNCHANGED <<mounted, analysis, history, livePrice, livePriceChange,
                   isRefreshingPrice, pollingTimeoutRef, stored, timers, polls,
                   searches, now, lastPoll>>
    /\ UNCHANGED <<svcVars, fnVars>>

\* The New Search button: setAnalysis(null), then the effect's cleanup and the
\* effect's !analysis branch.
NewSearch ==
    /\ mounted /\ analysis # NoAnalysis
    /\ analysis' = NoAnalysis
    /\ livePrice' = Null
    /\ livePriceChange' = Null
    /\ timers' = ClearTimeout(ClearTimeout(timers, pollingTimeoutRef), pollingTimeoutRef)
    /\ UNCHANGED <<mounted, isAnalyzing, history, error, isRefreshingPrice,
                   pollingTimeoutRef, stored, polls, search, searches, now, lastPoll>>
    /\ UNCHANGED <<svcVars, fnVars>>

\* The Clear error button
ClearError ==
    /\ mounted /\ error
    /\ error' = FALSE
    /\ UNCHANGED <<mounted, isAnalyzing, analysis, history, livePrice, livePriceChange,
                   isRefreshingPrice, pollingTimeoutRef, stored, timers, polls,
                   search, searches, now, lastPoll>>
    /\ UNCHANGED <<svcVars, fnVars>>

\* The Clear History button
ClearHistory ==
    /\ mounted /\ analysis = NoAnalysis /\ ~isAnalyzing /\ Len(history) > 0
    /\ history' = <<>>
    /\ stored' = NoItem
    /\ UNCHANGED <<mounted, isAnalyzing, analysis, error, livePrice, livePriceChange,
                   isRefreshingPrice, pollingTimeoutRef, timers, polls, search,
                   searches, now, lastPoll>>
    /\ UNCHANGED <<svcVars, fnVars>>

\* The timer t fires: runPolling up to `await fetchRealTimePrice(analysis.symbol)`.
TimerFiresOf(t) ==
    /\ t \in timers
    /\ timers' = timers \ {t}
    /\ polls' = polls \cup
           {[owner |-> t.owner, symbol |-> t.symbol, interval |-> Interval(now)]}
    /\ isRefreshingPrice' = IF mounted THEN TRUE ELSE isRefreshingPrice
    /\ UNCHANGED <<mounted, isAnalyzing, analysis, history, error, livePrice,
                   livePriceChange, pollingTimeoutRef, stored, search, searches, now,
                   lastPoll>>
    /\ UNCHANGED <<svcVars, fnVars>>

\* fetchRealTimePrice settled with `update` for the runPolling call p: the
\* rest of the try block, the catch and the finally.
PollSettlesWith(p, update) ==
    /\ p \in polls
    /\ polls' = polls \ {p}
    /\ IF mounted /\ AcceptsUpdate(update)
       THEN /\ livePrice' = Num(update.price)
            /\ livePriceChange' = Num(update.change)
       ELSE UNCHANGED <<livePrice, livePriceChange>>
    /\ timers' = SetTimeout(timers,
           [id |-> TimerId(p.owner), owner |-> p.owner, symbol |-> p.symbol,
            delay |-> p.interval])
    /\ pollingTimeoutRef' = TimerId(p.owner)
    /\ isRefreshingPrice' = IF mounted THEN FALSE ELSE isRefreshingPrice
    /\ lastPoll' = [owner |-> p.owner, accepted |-> AcceptsUpdate(update)]
    /\ UNCHANGED <<mounted, isAnalyzing, analysis, history, error, stored, search,
                   searches, now>>
    /\ UNCHANGED <<svcVars, fnVars>>

TimerFires == \E t \in timers : TimerFiresOf(t)

PollSettles ==
    \E p \in polls : \E update \in PollOutcomes(p.symbol) : PollSettlesWith(p, update)

\* The component is torn down: the effect's cleanup runs if the last effect
\* run returned one, and the component's state is discarded.
Unmount ==
    /\ mounted
    /\ mounted' = FALSE
    /\ timers' = IF analysis # NoAnalysis
                 THEN ClearTimeout(timers, pollingTimeoutRef) ELSE timers
    /\ isAnalyzing' = FALSE
    /\ analysis' = NoAnalysis
    /\ history' = <<>>
    /\ error' = FALSE
    /\ livePrice' = Null
    /\ livePriceChange' = Null
    /\ isRefreshingPrice' = FALSE
    /\ UNCHANGED <<pollingTimeoutRef, stored, polls, search, searches, now, lastPoll>>
    /\ UNCHANGED <<svcVars, fnVars>>

\* Time passes.
Tick ==
    /\ \E t \in ClockSamples : t # now /\ now' = t
    /\ UNCHANGED <<mounted, isAnalyzing, analysis, history, error, livePrice,
                   livePriceChange, isRefreshingPrice, pollingTimeoutRef, stored,
                   timers, polls, search, searches, lastPoll>>
    /\ UNCHANGED <<svcVars, fnVars>>

Next ==
    \/ HandleSearch \/ SearchResolves \/ SearchRejects \/ NewSearch
    \/ ClearError \/ ClearHistory \/ TimerFires \/ PollSettles \/ Unmount \/ Tick

\* extractJson has not been called.
NotCalled == [ok |-> FALSE, toks |-> <<>>, msg |-> "not called"]

FnInit ==
    /\ textArg = <<>>
    /\ extracted = NotCalled

Init == SvcInit /\ AppInit /\ FnInit

Spec == Init /\ [][Next]_vars

SpecService == Init /\ [][SvcNext]_vars

\* The analyses a run can display, by id.
Owners == 1..MaxSearches

\* The event loop runs every timer callback that stays pending, and every
\* fetchRealTimePrice call settles (it catches all upstream failures and the
\* retry wrapper is bounded).
TimerFiresFor(o) == \E t \in timers : t.owner = o /\ TimerFiresOf(t)

PollSettlesFor(o) ==
    \E p \in polls : p.owner = o /\
        \E update \in PollOutcomes(p.symbol) : PollSettlesWith(p, update)

Fairness ==
    \A o \in Owners : WF_vars(TimerFiresFor(o)) /\ WF_vars(PollSettlesFor(o))

\* Every step of the component but the passing of time: whether a timer is
\* set does not depend on the clock, which keeps the value it starts with.
LiveNext ==
    \/ HandleSearch \/ SearchResolves \/ SearchRejects \/ NewSearch
    \/ ClearError \/ ClearHistory \/ TimerFires \/ PollSettles \/ Unmount

SpecLive == Init /\ [][LiveNext]_vars /\ Fairness

-----------------------------------------------------------------------------
(* extractJson on its own: one call on a text                              *)

\* Bounds: the length of an arbitrary text, and of a JSON document that is
\* wrapped in fences or in prose.
MaxTextLen == 4
MaxDocLen == 5

\* All texts of at most n tokens.
Texts(toks, n) == UNION {[1..k -> toks] : k \in 0..n}

DocTokens == {"{", "}", "m", "a", "b", "x", " ", Fence}

ValidDocs == {d \in Texts(DocTokens, MaxDocLen) : JsonValid(d)}

\* A fenced code block: an opening fence, with or without the json tag, the
\* document, and a closing fence.
WrappedTexts == {<<o>> \o d \o <<Fence>> : o \in {Fence, FenceJson}, d \in ValidDocs}

\* Prose the model puts around a document.
Prose ==
    { <<"x">>, <<"x", " ">>, <<" ", "x">>, <<"x", "{">>, <<"x", "}">>,
      <<"{", "x">>, <<"}", "x">> }

ProseTexts == {p \o d \o q : p \in Prose, d \in ValidDocs, q \in Prose}

ExtractInputs == Texts(Tokens, MaxTextLen) \cup WrappedTexts \cup ProseTexts

ExtractText ==
    /\ extracted = NotCalled
    /\ \E t \in ExtractInputs :
         /\ textArg' = t
         /\ extracted' = extractJson(t)
    /\ UNCHANGED <<svcVars, appVars>>

ExtractInit ==
    /\ Init
    /\ stored = NoItem
    /\ now = [day |-> 6, hours |-> 10, minutes |-> 0]

SpecExtract == ExtractInit /\ [][ExtractText]_vars

-----------------------------------------------------------------------------
(* The market clock on its own: every minute of the week                   *)

NextMinute(t) ==
    IF t.minutes < 59 THEN [t EXCEPT !.minutes = @ + 1]
    ELSE IF t.hours < 23 THEN [t EXCEPT !.hours = @ + 1, !.minutes = 0]
    ELSE [day |-> (t.day + 1) % 7, hours |-> 0, minutes |-> 0]

MinutePasses ==
    /\ now' = NextMinute(now)
    /\ UNCHANGED <<mounted, isAnalyzing, analysis, history, error, livePrice,
                   livePriceChange, isRefreshingPrice, pollingTimeoutRef, stored,
                   timers, polls, search, searches, lastPoll>>
    /\ UNCHANGED <<svcVars, fnVars>>

MarketInit ==
    /\ Init
    /\ stored = NoItem
    /\ now = [day |-> 6, hours |-> 10, minutes |-> 0]

SpecMarket == MarketInit /\ [][MinutePasses]_vars

-----------------------------------------------------------------------------
(* The search history on its own: long runs of searches and clears         *)

\* Bound: how many searches a history run starts.
MaxHistorySearches == 12

\* The trending symbols of the page, and four more the user types.
HistorySymbols ==
    <<"RELIANCE", "TCS", "HDFCBANK", "INFY", "ZOMATO", "TATASTEEL", "ADANIENT",
      "ITC", "SBIN", "WIPRO", "LT", "ONGC">>

\* List lengths at which the upstream also fails.
RejectLens == {0, 3, HistoryLimit}

\* The first symbol that is not in the list.
Unlisted(h) ==
    LET free == {i \in DOMAIN HistorySymbols :
                    \A k \in DOMAIN h : h[k].symbol # Str(<<HistorySymbols[i]>>)}
    IN  HistorySymbols[CHOOSE i \in free : \A j \in free : i <= j]

\* The symbols the user asks for: one that is not listed, and the second and
\* the last of the list (a click on a history item).
HistoryInputs(h) ==
    {<<Unlisted(h)>>} \cup
    (IF Len(h) >= 2 THEN {h[2].symbol.str, h[Len(h)].symbol.str} ELSE {})

HistorySearch == StartSearch(HistoryInputs(history), MaxHistorySearches)

\* The upstream answers for the symbol that was asked for.
HistoryResolves == SearchResolvesWith([symbol |-> Str(search.symbol), price |-> 100])

HistoryRejects == Len(search.history) \in RejectLens /\ SearchRejects

HistoryInit ==
    /\ Init
    /\ stored = NoItem
    /\ now = [day |-> 1, hours |-> 9, minutes |-> 15]

HistoryNext ==
    \/ HistorySearch \/ HistoryResolves \/ HistoryRejects \/ NewSearch \/ ClearHistory

SpecHistory == HistoryInit /\ [][HistoryNext]_vars

-----------------------------------------------------------------------------
(* Claims about the query service, checked under SpecService               *)

\* What fn() did on the i-th call (1-based), recomputed from the log.
Outcome(i) == Fn(callee, log[i])
Failed(i) == Outcome(i).kind = "throw"
RateLimited(i) == log[i].kind = "reject" /\ log[i].st = Status(429)
NonTransientStatus(st) == ~st.hasStatus \/ (st.status # 429 /\ st.status < 500)
RaisedBy(i) == [Outcome(i).error EXCEPT !.at = i - 1]

\* C4: when the first attempt fails with a failure that is not transient
\* (status neither 429 nor >= 500, or no status), fetchWithRetry has raised
\* that very failure, after one call and without any wait.
C4_NonTransientFirstFailureRaises ==
    (Len(log) >= 1 /\ Failed(1) /\ NonTransientStatus(Outcome(1).error.st))
        => /\ pc = "done"
           /\ retryResult = Throws(RaisedBy(1))
           /\ calls = 1
           /\ waits = <<>>

C4_Witness ==
    /\ pc = "done"
    /\ log = <<Reject(Status(400))>>
    /\ retryResult.kind = "throw"

\* C5: with 3 maximum attempts, rate-limited failures on attempts 1 and 2
\* and a success on attempt 3 give the attempt-3 result after waits of
\* base*2^0 and base*2^1; every wait after 0-based attempt i is base*2^i;
\* and no call is made once the wrapper has returned.
C5_State ==
    /\ \A i \in 1..Len(waits) : waits[i] = initialDelay * Pow2(i - 1)
    /\ (/\ maxRetries = 3 /\ Len(log) = 3
        /\ RateLimited(1) /\ RateLimited(2) /\ ~Failed(3))
         => /\ pc = "done"
            /\ retryResult = Outcome(3)
            /\ waits = <<initialDelay, 2 * initialDelay>>
            /\ calls = 3

C5_BackoffThenThirdResult ==
    /\ []C5_State
    /\ [][retryResult.kind = "return" => (calls' = calls /\ log' = log)]_vars

C5_Witness ==
    /\ maxRetries = 3 /\ Len(log) = 3
    /\ RateLimited(1) /\ RateLimited(2) /\ ~Failed(3)
    /\ retryResult.kind = "return"
    /\ retryResult.value.price = 100
    /\ waits = <<1000, 2000>>

\* C6: when every one of the maximum attempts has failed, fetchWithRetry
\* never returns a value, and what it raises is the failure of the last
\* attempt.
AllFailed ==
    /\ maxRetries > 0
    /\ Len(log) = maxRetries
    /\ \A i \in 1..Len(log) : Failed(i)

C6_ExhaustedRaisesLast ==
    AllFailed => /\ retryResult.kind # "return"
                 /\ pc = "done" => retryResult = Throws(RaisedBy(maxRetries))

C6_Witness ==
    /\ AllFailed
    /\ pc = "done"
    /\ maxRetries = 3
    /\ log[1] # log[3]
    /\ retryResult.error.at = 2

\* C7 as amended: the full analysis makes at most 2 upstream attempts and
\* the price-only poll at most 3.
C7_AttemptBounds ==
    /\ callee = "analyzeIndianStock" => calls <= 2
    /\ callee = "fetchRealTimePrice" => calls <= 3

\* a poll that made more attempts than any full analysis makes
C7_Witness == callee = "fetchRealTimePrice" /\ calls = 3 /\ pc = "done"

\* C7 as stated: at most 3 attempts for the full analysis, and fewer than
\* that for the price-only poll.
C7_PollFewerThanAnalysis ==
    /\ callee = "analyzeIndianStock" => calls <= 3
    /\ callee = "fetchRealTimePrice" => calls < 3

\* C8: fetchRealTimePrice never raises on a failure of the upstream call or
\* of extraction: once the upstream has been called it does not raise, and
\* whenever the retry wrapper raised (first-attempt or exhausted) it returns
\* exactly {price: 0, change: 0}.
C8_PriceNeverRaises ==
    callee = "fetchRealTimePrice" =>
        /\ calls >= 1 => final.kind # "throw"
        /\ (pc = "done" /\ retryResult.kind = "throw")
             => final = Returns([symbol |-> Undefined, price |-> 0, change |-> 0])
        /\ (pc = "done" /\ retryResult.kind # "pending") => final.kind = "return"

C8_Witness ==
    /\ callee = "fetchRealTimePrice"
    /\ pc = "done"
    /\ retryResult.kind = "throw"
    /\ calls = 3
    /\ final.kind = "return"

\* C10 as stated: whenever the upstream answered the last call of a full
\* analysis with no text, the analysis fails with the empty-response error.
NoText(u) == u.kind = "resolve" /\ (~u.textDefined \/ u.text = <<>>)

C10_EmptyResponseFails ==
    (/\ callee = "analyzeIndianStock" /\ pc = "done"
     /\ Len(log) >= 1 /\ NoText(log[Len(log)]))
        => final.kind = "throw" /\ final.error.msg = EmptyMsg

-----------------------------------------------------------------------------
(* Claims about the polling controller, checked under Spec                 *)

\* The representation of timer ids rests on this: a runPolling closure never
\* has two pending timers, nor a pending timer while its poll is in flight.
OneTimerPerClosure ==
    /\ \A t1, t2 \in timers : t1.owner = t2.owner => t1 = t2
    /\ \A p1, p2 \in polls : p1.owner = p2.owner => p1 = p2
    /\ \A t \in timers : \A p \in polls : t.owner # p.owner

\* C1 as stated: once the analysis is cleared (or the component torn down)
\* no poll timer of the cleared analysis is pending: every pending timer
\* belongs to the analysis now displayed.
C1_NoOrphanTimer ==
    \A t \in timers : mounted /\ analysis # NoAnalysis /\ t.owner = analysis.id

\* C2 as stated: at most one poll timer is pending in every reachable state.
C2_AtMostOneTimer == Cardinality(timers) <= 1

\* C3 as stated: at most one fetchRealTimePrice call of the polling
\* controller is in flight in every reachable state.
C3_NoOverlappingPolls == Cardinality(polls) <= 1

\* C9: a poll that settles with a price that is zero or negative leaves the
\* displayed live price and the displayed percent-change as they were.
C9_DegradedPollKeepsPrice ==
    [][\A p \in polls : \A update \in PollOutcomes(p.symbol) :
          (update.price <= 0 /\ PollSettlesWith(p, update))
              => (livePrice' = livePrice /\ livePriceChange' = livePriceChange)]_vars

\* a degraded poll of the displayed analysis settled last, and the price
\* an earlier poll had written is still displayed
C9_Witness ==
    /\ mounted /\ analysis # NoAnalysis
    /\ lastPoll.owner = analysis.id
    /\ ~lastPoll.accepted
    /\ livePrice = Num(101)
    /\ livePriceChange = Num(2)

-----------------------------------------------------------------------------
(* Claims about handleSearch, checked under Spec                           *)

\* C11 as stated: a failed analysis leaves the error message set and the
\* analysis empty, and no analysis built from a missing payload (one without
\* a symbol) is ever displayed.
C11_NoDegradedAnalysis ==
    /\ error => analysis = NoAnalysis
    /\ analysis # NoAnalysis => analysis.symbol.type = "string"

-----------------------------------------------------------------------------
(* Claims about the polling schedule, checked under Spec                   *)

\* The delay the market predicate selects at the present instant.
DelayNow == IF isIndianMarketOpen(now) THEN OpenInterval ELSE ClosedInterval

\* Every timer, and every interval a running poll will schedule with, is one
\* of the two delays.
C14_State ==
    /\ \A t \in timers : t.delay \in {OpenInterval, ClosedInterval}
    /\ \A p \in polls : p.interval \in {OpenInterval, ClosedInterval}

\* A search that resolves into a displayed analysis schedules exactly one
\* timer for it, with the delay the predicate selects at that moment, and
\* starts no poll.
C14_FirstTimer ==
    (search.active /\ ~search'.active /\ analysis' # analysis)
        => /\ polls' = polls
           /\ \E t \in timers' :
                /\ timers' = timers \cup {t} /\ t \notin timers
                /\ t.owner = analysis'.id
                /\ t.delay = DelayNow

\* A poll starts only when a timer fires, and takes the delay the predicate
\* selects in that runPolling call; the timer it sets on completion carries
\* that delay.
C14_LaterTimers ==
    /\ \A p \in polls' \ polls :
          /\ \E t \in timers \ timers' : t.owner = p.owner
          /\ p.interval = DelayNow
    /\ \A p \in polls \ polls' :
          \E t \in timers' \ timers : t.owner = p.owner /\ t.delay = p.interval

\* C14: a successful analysis schedules a timer rather than polling at once;
\* the first delay is 30 s if the market is open at that moment and 15 min
\* otherwise, and every later timer uses one of exactly these two delays,
\* chosen by the market predicate.
C14_TimerDelays ==
    /\ []C14_State
    /\ [][C14_FirstTimer /\ C14_LaterTimers]_vars

\* A poll of the displayed analysis has completed and its next timer waits
\* the open-market delay.
C14_Witness ==
    /\ analysis # NoAnalysis /\ lastPoll.owner = analysis.id
    /\ \E t \in timers : t.owner = analysis.id /\ t.delay = OpenInterval

\* C15 as stated: the timer set when a poll completes carries the delay the
\* predicate selects at that scheduling, also when the market status changed
\* while fetchRealTimePrice was in flight.
C15_FreshInterval ==
    [][\A p \in polls \ polls' :
          \A t \in timers' \ timers : t.owner = p.owner => t.delay = DelayNow]_vars

-----------------------------------------------------------------------------
(* Claims about the search history, checked under SpecHistory              *)

\* C12: after any sequence of searches and history clears from an empty
\* history, the history has at most 10 entries and no two entries share a
\* symbol.
C12_BoundedDistinct ==
    /\ Len(history) <= 10
    /\ \A i, j \in DOMAIN history : i # j => history[i].symbol # history[j].symbol

\* The list is full and an eleventh search has resolved.
C12_Witness == Len(history) = 10 /\ searches > 10 /\ analysis # NoAnalysis

Symbols(h) == {h[i].symbol : i \in DOMAIN h}

Oldest(h) == CHOOSE e \in {h[i] : i \in DOMAIN h} :
                 \A i \in DOMAIN h : e.timestamp <= h[i].timestamp

MostRecentFirst(h) ==
    \A i \in DOMAIN h : i < Len(h) => h[i].timestamp > h[i + 1].timestamp

\* The step from list h to list g of a successful search for sym.
MovesToFront(h, g, sym) ==
    /\ Len(g) >= 1 /\ g[1].symbol = sym
    /\ \A i \in DOMAIN h : g[1].timestamp > h[i].timestamp
    /\ Symbols(g) =
          IF sym \in Symbols(h) \/ Len(h) < 10
          THEN Symbols(h) \cup {sym}
          ELSE (Symbols(h) \ {Oldest(h).symbol}) \cup {sym}
    /\ \A i, j \in 2..Len(g) :
          i < j => \E a, b \in DOMAIN h : a < b /\ h[a] = g[i] /\ h[b] = g[j]
    /\ Len(g) = 2 => \E a \in DOMAIN h : h[a] = g[2]

\* C13: a successful search puts its symbol at the front with a fresh
\* timestamp (moving it there if it was listed) and keeps the order of all
\* other entries; the list is always most-recent-first; a new symbol added
\* to a full list of 10 drops the oldest entry.
C13_MoveToFront ==
    /\ []MostRecentFirst(history)
    /\ [][(search.active /\ analysis' # analysis)
             => MovesToFront(history, history', analysis'.symbol)]_vars

\* A full list in which a listed symbol was moved to the front and, after
\* that, a new symbol pushed the oldest entry out.
C13_Witness ==
    /\ Len(history) = 10 /\ history[1].timestamp > 11
    /\ \E i \in 1..9 : history[i].timestamp > history[i + 1].timestamp + 1

-----------------------------------------------------------------------------
(* Claims about isIndianMarketOpen, checked under SpecMarket               *)

MinuteOfDay(t) == t.hours * 60 + t.minutes

\* C16: the market is open exactly when the regional weekday is Monday to
\* Friday and the regional minute of the day is in 555..930, both ends
\* included; it is closed at every other instant, all of Saturday and Sunday
\* included.
C16_OpenExactlyInSession ==
    isIndianMarketOpen(now) <=>
        (now.day \in {1, 2, 3, 4, 5} /\ MinuteOfDay(now) \in 555..930)

\* Friday 15:30, the last open minute of the week.
C16_Witness ==
    /\ now = [day |-> 5, hours |-> 15, minutes |-> 30]
    /\ isIndianMarketOpen(now)
    /\ ~isIndianMarketOpen(NextMinute(now))

-----------------------------------------------------------------------------
(* Claims about extractJson, checked under SpecExtract                     *)

Called == extracted # NotCalled

Unwrapped(t) == SubSeq(t, 2, Len(t) - 1)

FenceWrapped(t) ==
    /\ Len(t) >= 3
    /\ t[1] \in {Fence, FenceJson} /\ t[Len(t)] = Fence
    /\ JsonValid(Unwrapped(t))

\* C17 as stated: for a valid document wrapped in a fence, with or without
\* the json tag, extraction returns what parsing the unwrapped document
\* returns.
C17_FencedEqualsDirect ==
    (Called /\ FenceWrapped(textArg))
        => extracted = Parsed(JsonParse(Unwrapped(textArg)).toks)

BraceFree(p) == \A i \in DOMAIN p : p[i] \notin {"{", "}"}

\* C18 as stated, for prose that has no brace of its own: for a valid object
\* with prose before and after it, extraction returns that object, the part
\* of the text from its first "{" to its last "}".
C18_ProseWrappedObject ==
    Called =>
        \A p \in Prose, q \in Prose, d \in ValidDocs :
            (textArg = p \o d \o q /\ BraceFree(p) /\ BraceFree(q))
                => extracted = Parsed(JsonParse(d).toks)

\* Neither the stripped text nor its part from the first "{" to the last "}"
\* is a JSON document.
Unparseable(t) ==
    LET c == StripFences(t)
        opens == {i \in DOMAIN c : c[i] = "{"}
        closes == {i \in DOMAIN c : c[i] = "}"}
    IN  /\ ~JsonValid(c)
        /\ \/ opens = {}
           \/ closes = {}
           \/ \A i \in opens : \A j \in closes : j < i
           \/ \E i \in opens : \E j \in closes :
                 /\ \A k \in opens : i <= k
                 /\ \A k \in closes : k <= j
                 /\ i < j /\ ~JsonValid(SubSeq(c, i, j))

\* C19: a non-empty text that neither parses after fence stripping nor has
\* a parseable part between its first "{" and its last "}" makes extraction
\* fail with the unparseable-payload error; no value is returned.
C19_UnparseableFails ==
    (Called /\ textArg # <<>> /\ Unparseable(textArg))
        => extracted = Threw(ExtractMsg)

\* A text whose last "}" comes before its first "{".
C19_Witness ==
    /\ textArg = <<"}", "x", "{">>
    /\ extracted = Threw(ExtractMsg)

-----------------------------------------------------------------------------
(* Claims about ticker normalisation, checked under SpecService            *)

\* C20: in analyzeIndianStock and in fetchRealTimePrice alike, a symbol
\* without "." is sent upstream with ".NS" appended, a symbol with "." is
\* sent unchanged, and normalising the ticker again changes nothing.
C20_TickerNormalised ==
    (callee # "none" /\ symbolArg.type = "string") =>
        LET sym == symbolArg.str
            dotted == \E i \in DOMAIN sym : sym[i] = "."
        IN  /\ ~dotted => ticker = sym \o <<".", "NS">>
            /\ dotted => ticker = sym
            /\ NormaliseTicker(ticker) = ticker

\* The price poll was called with a bare symbol and has made an attempt.
C20_Witness ==
    /\ callee = "fetchRealTimePrice" /\ calls >= 1
    /\ symbolArg = Str(<<"TCS">>)
    /\ ticker = <<"TCS", ".", "NS">>

-----------------------------------------------------------------------------
(* Claims about the history store, checked under Spec                      *)

\* C21: the store is rewritten on every successful analysis and on every
\* clear, so that for the mounted component the persisted list is the
\* in-memory history: present and equal once an analysis has succeeded,
\* absent (and the history empty) after a clear.
C21_StoreEqualsHistory ==
    mounted => /\ stored.list = history
               /\ history # <<>> => stored = Item(history)
               /\ ~stored.present => history = <<>>

\* Two analyses have succeeded and both are in the store.
C21_Witness ==
    /\ mounted /\ Len(history) = 2 /\ searches = 2
    /\ stored = Item(history)

-----------------------------------------------------------------------------
(* Claims about later failures in fetchWithRetry, checked under SpecService *)

\* The i-th call (1-based) failed with a failure that is not transient.
FailedNotTransient(i) == Failed(i) /\ NonTransientStatus(Outcome(i).error.st)

\* C22: a failure that is not transient on an attempt after the first does
\* not end the loop: the wrapper waits base*2^(attempt index) and, while
\* attempts remain, calls again; the only failure raised with no wait after
\* it is a first-attempt failure that is not transient.
C22_LaterFailureRetried ==
    /\ \A i \in 2..Len(log) :
          FailedNotTransient(i) =>
              \/ pc = "wait" /\ Len(log) = i /\ Len(waits) = i - 1
              \/ /\ Len(waits) >= i
                 /\ waits[i] = initialDelay * Pow2(i - 1)
                 /\ i < maxRetries => (Len(log) > i \/ (pc = "attempt" /\ attempt = i))
    /\ (pc = "done" /\ retryResult.kind = "throw" /\ Len(waits) < Len(log))
          => Len(log) = 1 /\ FailedNotTransient(1)

\* A price poll whose second call failed with status 400 and which called
\* a third time after waits of 1000 and 2000.
C22_Witness ==
    /\ callee = "fetchRealTimePrice" /\ Len(log) = 3
    /\ log[1] = Reject(Status(429)) /\ log[2] = Reject(Status(400))
    /\ SubSeq(waits, 1, 2) = <<1000, 2000>>

-----------------------------------------------------------------------------
(* Claims about the progress of polling, checked under SpecLive            *)

Displayed(a) == mounted /\ analysis.id = a
InFlight(a) == \E p \in polls : p.owner = a
TimerPending(a) == \E t \in timers : t.owner = a

\* C23: every poll that completes, with a new price or with the degraded
\* reading, sets the next timer; so for as long as an analysis stays
\* displayed its polls keep starting and keep completing.
C23_PollingNeverStalls ==
    /\ [][\A p \in polls \ polls' : TimerPending(p.owner)']_vars
    /\ \A a \in Owners :
          /\ []<>(~Displayed(a) \/ InFlight(a))
          /\ []<>(~Displayed(a) \/ TimerPending(a))

\* A poll of the displayed analysis returned the degraded reading and the
\* next timer is pending.
C23_Witness ==
    /\ analysis # NoAnalysis /\ mounted
    /\ lastPoll.owner = analysis.id /\ ~lastPoll.accepted
    /\ TimerPending(analysis.id) /\ ~InFlight(analysis.id)

-----------------------------------------------------------------------------
(* Claims about the displayed state, checked under Spec                    *)

\* C24 as stated, in the part a state shows: the live price is empty
\* whenever no analysis is displayed (a poll started for an analysis that
\* has been cleared never writes the price).
C24_PriceOfDisplayed ==
    (mounted /\ analysis = NoAnalysis) => livePrice = Null

\* A handleSearch call settles in this step, in the mounted component.
SearchSettles == mounted /\ search.active /\ ~search'.active

\* C25: an error message and an analysis are never both present; while a
\* search is in progress the analysis is empty; a search that settles ends
\* with isAnalyzing false and with exactly one of an analysis or the error
\* message.
C25_State ==
    /\ ~(error /\ analysis # NoAnalysis)
    /\ isAnalyzing => analysis = NoAnalysis

C25_ErrorOrAnalysis ==
    /\ []C25_State
    /\ [][SearchSettles =>
            /\ ~isAnalyzing'
            /\ (analysis' # NoAnalysis) # error']_vars

\* A search has failed after an earlier one had succeeded and was closed.
C25_Witness ==
    /\ mounted /\ error /\ analysis = NoAnalysis /\ ~isAnalyzing
    /\ searches = 2 /\ Len(history) = 1 /\ history[1].timestamp = 1

\* C26: a search that fails changes neither the history list, which is
\* still the one the search started with, nor the store, and starts no
\* timer.
C26_FailedSearchFrame ==
    [][(SearchSettles /\ error') =>
          /\ history' = history /\ history = search.history
          /\ stored' = stored
          /\ timers' = timers /\ pollingTimeoutRef' = pollingTimeoutRef
          /\ analysis' = NoAnalysis]_vars

\* The first search of a run failed: no entry, no store, no timer.
C26_Witness ==
    /\ mounted /\ error /\ searches = 1
    /\ history = <<>> /\ stored = NoItem /\ timers = {} /\ polls = {}

=============================================================================
